---- MODULE Spec2Model ----
(***************************************************************************)
(* TrackWise: account registration / login (accounts/views.py) and the     *)
(* per-company product inventory (trackwise/inventory/views.py), modelled  *)
(* as a state machine over the database tables, the browser sessions and   *)
(* the requests in flight.                                                 *)
(*                                                                         *)
(* A handler that issues one database write is one action.  The handlers   *)
(* that read a row and write it back in a later statement (register_view,  *)
(* increase_stock, decrease_stock) are two actions, one per database       *)
(* operation, so that requests of different sessions interleave between    *)
(* the read and the write as they do on a multi-worker server.             *)
(***************************************************************************)
EXTENDS Integers, Sequences, FiniteSets, TLC

VARIABLES
    users,      \* auth User table: set of rows [id, username, password]
    session,    \* session[s]: the account the browser session s is bound to
    products,   \* Product table: products[pk] is a row or NoRow
    next_pk,    \* the Product table's auto-increment counter
    req,        \* req[s]: the request of session s that is between two DB operations
    resp,       \* the response the server sent last
    rt          \* history of a run of stock requests (used by SpecRoundTrip only)

vars == <<users, session, products, next_pk, req, resp, rt>>

----------------------------------------------------------------------------
(* Bounds of the model *)

\* largest primary key the Product table hands out
MaxPk == 2
\* largest quantity a form submits, and the quantity from which the inventory
\* specifications send no further increase
MaxQty == 1
\* number of stock requests of one kind the stock specifications send
MaxClicks == 2

\* password length below which registration is refused
MinPasswordLength == 8

PKs == 1 .. MaxPk
Sessions == {"s1", "s2", "s3"}
Methods == {"GET", "POST"}
Companies == {"A", "B"}
Usernames == {"owner", "staff", "newbie"}
\* "short77" has 7 characters, "eight888" has 8
Passwords == {"short77", "eight888"}
AnonymousUser == "AnonymousUser"

\* item names and search strings are sequences of characters
ItemNames == { <<"W", "i", "d">> }
Categories == { <<"T", "o", "y">> }
CostPrices == {3}
SearchQueries == { <<>>, <<"w", "i">>, <<"t", "O">>, <<"g">> }

----------------------------------------------------------------------------
(* accounts.models.UserProfile: the rows that exist.  No view creates,     *)
(* changes or deletes a profile, so the table is fixed; an account that    *)
(* registers through register_view has none.                               *)

UserProfile ==
    [owner |-> [company |-> "A", role |-> "business_owner"],
     staff |-> [company |-> "B", role |-> "staff"]]

\* request.user.userprofile raises UserProfile.DoesNotExist when FALSE
HasProfile(u) == u \in DOMAIN UserProfile

----------------------------------------------------------------------------
(* Values *)

NoRow == [absent |-> TRUE]
Idle == [view |-> "idle"]
NoRT == [active |-> FALSE]

\* a response: the view that sent it and the request.user it answers, what
\* kind it is, where it goes, the notice it carries, the products whose data
\* it contains, and the JSON body or template context
Response(view, user, kind, target, notice, shown, json) ==
    [view |-> view, user |-> user, kind |-> kind, target |-> target,
     notice |-> notice, shown |-> shown, json |-> json]

NoJson == [none |-> TRUE]
NoResponse == Response("", "", "none", "", "", {}, NoJson)

Redirect(view, user, target, notice) ==
    Response(view, user, "redirect", target, notice, {}, NoJson)
Render(view, user, template, shown) ==
    Response(view, user, "render", template, "", shown, NoJson)

----------------------------------------------------------------------------
(* django.contrib.auth, as accounts/views.py uses it *)

make_password(raw) == <<"pbkdf2_sha256", raw>>
check_password(raw, encoded) == encoded = make_password(raw)

\* User.objects.filter(username=username).exists()
UsernameExists(username) == \E u \in users : u.username = username

\* authenticate that accepts any password of an existing account
authenticate_any_password(username, password) ==
    IF \E u \in users : u.username = username THEN {username} ELSE {}

\* authenticate(username=..., password=...): the account, or None
authenticate(username, password) ==
    LET ok == {u \in users : u.username = username /\ check_password(password, u.password)}
    IN  IF ok = {} THEN {} ELSE {username}

\* the registration checks with the mismatch check before the length check
RegisterCheck_mismatch_first(username, password1, password2) ==
    IF UsernameExists(username) THEN "Username already exists. Please choose another."
    ELSE IF password1 # password2 THEN "Passwords do not match."
    ELSE IF Len(password1) < MinPasswordLength THEN "Password must be at least 8 characters long."
    ELSE "ok"

\* the outcome of the three registration checks, in the order the view runs them
RegisterCheck(username, password1, password2) ==
    IF UsernameExists(username) THEN "Username already exists. Please choose another."
    ELSE IF Len(password1) < MinPasswordLength THEN "Password must be at least 8 characters long."
    ELSE IF password1 # password2 THEN "Passwords do not match."
    ELSE "ok"

\* register_view up to the call of create_user: the checks
register_view(s, method, username, password1, password2) ==
    /\ req[s] = Idle
    /\ IF method = "POST"
       THEN LET outcome == RegisterCheck(username, password1, password2)
            IN  IF outcome # "ok"
                THEN /\ resp' = Redirect("register_view", session[s], "accounts:register", outcome)
                     /\ UNCHANGED req
                ELSE /\ req' = [req EXCEPT ![s] = [view |-> "register_view",
                                                   username |-> username,
                                                   password |-> password1]]
                     /\ UNCHANGED resp
       ELSE /\ resp' = Render("register_view", session[s], "accounts/register.html", {})
            /\ UNCHANGED req
    /\ UNCHANGED <<users, session, products, next_pk>>

\* User.objects.create_user: INSERT into a table whose username column is
\* unique; the INSERT of a username that is present raises IntegrityError
InsertUser(username, password) ==
    IF UsernameExists(username)
    THEN users
    ELSE users \cup {[id |-> Cardinality(users) + 1, username |-> username,
                      password |-> make_password(password)]}

\* register_view from create_user to the redirect
create_user(s) ==
    /\ req[s] # Idle
    /\ req[s].view = "register_view"
    /\ users' = InsertUser(req[s].username, req[s].password)
    /\ resp' = IF UsernameExists(req[s].username)
               THEN Response("register_view", session[s], "error500", "",
                             "IntegrityError", {}, NoJson)
               ELSE Redirect("register_view", session[s], "accounts:login",
                             "Account created successfully! You can now log in.")
    /\ req' = [req EXCEPT ![s] = Idle]
    /\ UNCHANGED <<session, products, next_pk>>

\* login_view
login_view(s, method, username, password) ==
    /\ req[s] = Idle
    /\ IF method = "POST"
       THEN IF ~UsernameExists(username)
            THEN /\ resp' = Redirect("login_view", session[s], "accounts:login",
                                     "Username does not exist.")
                 /\ UNCHANGED session
            ELSE IF authenticate(username, password) # {}
            THEN /\ session' = [session EXCEPT ![s] = username]
                 /\ resp' = Redirect("login_view", username, "dashboard:dashboard",
                                     "Welcome back")
            ELSE /\ resp' = Redirect("login_view", session[s], "accounts:login",
                                     "Invalid username or password.")
                 /\ UNCHANGED session
       ELSE /\ resp' = Render("login_view", session[s], "accounts/login.html", {})
            /\ UNCHANGED session
    /\ UNCHANGED <<users, products, next_pk, req>>

----------------------------------------------------------------------------
(* inventory.models.Product and inventory.forms.ProductForm *)

\* the company filter left out: Product.objects.all()
CompanyProducts_unscoped(company) == {pk \in PKs : products[pk] # NoRow}

\* the products of a company: Product.objects.filter(company=company)
CompanyProducts(company) ==
    {pk \in PKs : products[pk] # NoRow /\ products[pk].company = company}

\* Product.total_value
total_value(row) == row.cost_price * row.quantity

RECURSIVE SumValues(_)
SumValues(pks) ==
    IF pks = {} THEN 0
    ELSE LET pk == CHOOSE x \in pks : TRUE
         IN  total_value(products[pk]) + SumValues(pks \ {pk})

Lower(c) ==
    CASE c = "W" -> "w" [] c = "G" -> "g" [] c = "T" -> "t" [] c = "O" -> "o"
      [] OTHER -> c

\* field__icontains=needle: a case-insensitive substring match
icontains(hay, needle) ==
    \E i \in 0 .. Len(hay) - Len(needle) :
        \A j \in 1 .. Len(needle) : Lower(hay[i + j]) = Lower(needle[j])

\* the POST data a client may submit to the add and edit forms
PostData ==
    [item_name : ItemNames, category : Categories, cost_price : CostPrices,
     quantity : -1 .. MaxQty, company : Companies]

\* request.POST of a GET request
NoPost == [none |-> TRUE]

\* the requests a client may send to a view that takes a form
FormRequests ==
    {<<"GET", NoPost>>} \cup {<<"POST", post>> : post \in PostData}

\* ProductForm.is_valid(): quantity is a non-negative integer
ProductForm_is_valid(post) == post.quantity >= 0

\* ProductForm.save(commit=False): the form's fields written onto the instance;
\* company is no field of the form
ProductForm_save(instance, post) ==
    [company |-> instance.company, item_name |-> post.item_name,
     category |-> post.category, cost_price |-> post.cost_price,
     quantity |-> post.quantity]

\* Model.save() of an instance with a primary key: UPDATE of the row, INSERT
\* when no row has that key
Product_save(pk, row) == [products EXCEPT ![pk] = row]

\* Product.objects.get(pk=pk, company=company) finds a row
ProductFound(pk, company) == pk \in CompanyProducts(company)

\* the JSON bodies of the stock endpoints (display_quantity, a formatting of
\* new_quantity, is left out)
JsonOk(row) ==
    [success |-> TRUE, new_quantity |-> row.quantity, total_value |-> total_value(row)]
JsonError(error) == [success |-> FALSE, error |-> error]
JsonSuccess(view, user, pk, row) == Response(view, user, "json", "", "", {pk}, JsonOk(row))
JsonFailure(view, user, error) == Response(view, user, "json", "", "", {}, JsonError(error))

\* the missing-profile branch redirecting to the inventory list
ProfileNotFound_to_list(view, user) ==
    Redirect(view, user, "inventory_list", "User profile not found.")

\* except UserProfile.DoesNotExist of inventory_list, product_detail, product_add
ProfileNotFound(view, user) == Redirect(view, user, "dashboard", "User profile not found.")

\* the role test passing for every profile
is_business_owner_any(profile) == profile.role \in {"business_owner", "staff"}

\* profile.role == 'business_owner'
is_business_owner(profile) == profile.role = "business_owner"

\* the test off by one: product.quantity >= 0
HasStock_or_zero(row) == row.quantity >= 0

\* product.quantity > 0, the test decrease_stock makes before it subtracts
HasStock(row) == row.quantity > 0

\* an increase by two, a decrease by two
Increased_by_two(q) == q + 2
Decreased_by_two(q) == q - 2

\* product.quantity += 1
Increased(q) == q + 1
\* product.quantity -= 1
Decreased(q) == q - 1

----------------------------------------------------------------------------
(* trackwise/inventory/views.py *)

\* @login_required on every inventory view: an anonymous request is sent to
\* the login page and the view does not run
login_required(s) ==
    /\ req[s] = Idle
    /\ session[s] = AnonymousUser
    /\ resp' = Redirect("login_required", session[s], "accounts:login", "")
    /\ UNCHANGED <<users, session, products, next_pk, req>>

\* the products inventory_list puts in its context
ListedProducts(company, search_query) ==
    IF search_query # <<>>
    THEN {pk \in CompanyProducts(company) :
             \/ icontains(products[pk].item_name, search_query)
             \/ icontains(products[pk].category, search_query)}
    ELSE CompanyProducts(company)

inventory_list(s, search_query) ==
    /\ req[s] = Idle
    /\ session[s] # AnonymousUser
    /\ IF ~HasProfile(session[s])
       THEN resp' = ProfileNotFound("inventory_list", session[s])
       ELSE LET profile == UserProfile[session[s]]
                shown == ListedProducts(profile.company, search_query)
            IN  resp' = Response("inventory_list", session[s], "render",
                                 IF is_business_owner(profile)
                                 THEN "inventory/inventory_list.html"
                                 ELSE "inventory/inventory_list_staff.html",
                                 "", shown,
                                 [total_inventory_value |-> SumValues(shown)])
    /\ UNCHANGED <<users, session, products, next_pk, req>>

product_detail(s, method, pk, post) ==
    /\ req[s] = Idle
    /\ session[s] # AnonymousUser
    /\ IF ~HasProfile(session[s])
       THEN /\ resp' = ProfileNotFound("product_detail", session[s])
            /\ UNCHANGED products
       ELSE LET profile == UserProfile[session[s]]
                template == IF is_business_owner(profile)
                            THEN "inventory/product_detail.html"
                            ELSE "inventory/product_detail_staff.html"
            IN  IF ~ProductFound(pk, profile.company)
                THEN /\ resp' = Response("product_detail", session[s], "http404", "", "",
                                          {}, NoJson)
                     /\ UNCHANGED products
                ELSE IF method = "POST" /\ ~is_business_owner(profile)
                THEN /\ resp' = Redirect("product_detail", session[s], "inventory_list",
                           "Access denied. Only business owners can edit products.")
                     /\ UNCHANGED products
                ELSE IF method = "POST" /\ ProductForm_is_valid(post)
                THEN /\ products' = Product_save(pk, ProductForm_save(products[pk], post))
                     /\ resp' = Redirect("product_detail", session[s], "inventory_list",
                                         "Product updated successfully!")
                ELSE /\ resp' = Render("product_detail", session[s], template, {pk})
                     /\ UNCHANGED products
    /\ UNCHANGED <<users, session, next_pk, req>>

\* the company product_add attaches the new product to
AddCompany(profile, post) == profile.company

product_add(s, method, post) ==
    /\ req[s] = Idle
    /\ session[s] # AnonymousUser
    /\ IF ~HasProfile(session[s])
       THEN /\ resp' = ProfileNotFound("product_add", session[s])
            /\ UNCHANGED <<products, next_pk>>
       ELSE LET profile == UserProfile[session[s]]
            IN  IF method = "POST" /\ ProductForm_is_valid(post)
                THEN /\ next_pk <= MaxPk
                     /\ products' = Product_save(next_pk,
                            [ProductForm_save([company |-> "", quantity |-> 0], post)
                                EXCEPT !.company = AddCompany(profile, post)])
                     /\ next_pk' = next_pk + 1
                     /\ resp' = Redirect("product_add", session[s], "inventory_list",
                                         "Product added successfully!")
                ELSE /\ resp' = Render("product_add", session[s],
                                       "inventory/product_add.html", {})
                     /\ UNCHANGED <<products, next_pk>>
    /\ UNCHANGED <<users, session, req>>

\* increase_stock up to product.save(): the profile, the row, quantity += 1
increase_stock(s, method, pk) ==
    /\ req[s] = Idle
    /\ session[s] # AnonymousUser
    /\ IF method # "POST"
       THEN /\ resp' = JsonFailure("increase_stock", session[s], "Invalid request")
            /\ UNCHANGED req
       ELSE IF ~HasProfile(session[s]) \/ ~ProductFound(pk, UserProfile[session[s]].company)
       THEN /\ resp' = JsonFailure("increase_stock", session[s], "Product not found")
            /\ UNCHANGED req
       ELSE /\ req' = [req EXCEPT ![s] =
                          [view |-> "increase_stock", pk |-> pk,
                           product |-> [products[pk] EXCEPT !.quantity = Increased(@)]]]
            /\ UNCHANGED resp
    /\ UNCHANGED <<users, session, products, next_pk>>

\* increase_stock from product.save() to the JSON response
increase_stock_save(s) ==
    /\ req[s] # Idle
    /\ req[s].view = "increase_stock"
    /\ products' = Product_save(req[s].pk, req[s].product)
    /\ resp' = JsonSuccess("increase_stock", session[s], req[s].pk, req[s].product)
    /\ req' = [req EXCEPT ![s] = Idle]
    /\ UNCHANGED <<users, session, next_pk>>

\* decrease_stock up to product.save(); with quantity 0 there is no save and
\* the response follows at once
decrease_stock(s, method, pk) ==
    /\ req[s] = Idle
    /\ session[s] # AnonymousUser
    /\ IF method # "POST"
       THEN /\ resp' = JsonFailure("decrease_stock", session[s], "Invalid request")
            /\ UNCHANGED req
       ELSE IF ~HasProfile(session[s]) \/ ~ProductFound(pk, UserProfile[session[s]].company)
       THEN /\ resp' = JsonFailure("decrease_stock", session[s], "Product not found")
            /\ UNCHANGED req
       ELSE IF HasStock(products[pk])
       THEN /\ req' = [req EXCEPT ![s] =
                          [view |-> "decrease_stock", pk |-> pk,
                           product |-> [products[pk] EXCEPT
                                           !.quantity = Decreased(@)]]]
            /\ UNCHANGED resp
       ELSE /\ resp' = JsonSuccess("decrease_stock", session[s], pk, products[pk])
            /\ UNCHANGED req
    /\ UNCHANGED <<users, session, products, next_pk>>

\* decrease_stock from product.save() to the JSON response
decrease_stock_save(s) ==
    /\ req[s] # Idle
    /\ req[s].view = "decrease_stock"
    /\ products' = Product_save(req[s].pk, req[s].product)
    /\ resp' = JsonSuccess("decrease_stock", session[s], req[s].pk, req[s].product)
    /\ req' = [req EXCEPT ![s] = Idle]
    /\ UNCHANGED <<users, session, next_pk>>

product_delete(s, method, pk) ==
    /\ req[s] = Idle
    /\ session[s] # AnonymousUser
    /\ IF ~HasProfile(session[s]) \/ ~ProductFound(pk, UserProfile[session[s]].company)
       THEN /\ resp' = Redirect("product_delete", session[s], "inventory_list",
                                 "Product not found.")
            /\ UNCHANGED products
       ELSE IF ~is_business_owner(UserProfile[session[s]])
       THEN /\ resp' = Redirect("product_delete", session[s], "inventory_list",
                   "Access denied. Only business owners can delete products.")
            /\ UNCHANGED products
       ELSE IF method = "POST"
       THEN /\ products' = [products EXCEPT ![pk] = NoRow]
            /\ resp' = Redirect("product_delete", session[s], "inventory_list",
                                "Product deleted successfully!")
       ELSE /\ resp' = Render("product_delete", session[s],
                              "inventory/product_delete.html", {pk})
            /\ UNCHANGED products
    /\ UNCHANGED <<users, session, next_pk, req>>

----------------------------------------------------------------------------
InitUsers ==
    { [id |-> 1, username |-> "owner", password |-> make_password("eight888")],
      [id |-> 2, username |-> "staff", password |-> make_password("eight888")] }

Init ==
    /\ users = InitUsers
    /\ session = [s \in Sessions |-> AnonymousUser]
    /\ products = [pk \in PKs |-> NoRow]
    /\ next_pk = 1
    /\ req = [s \in Sessions |-> Idle]
    /\ resp = NoResponse
    /\ rt = NoRT

\* the bound on a quantity: no increase is sent for a product that reached cap
Below(pk, cap) == IF products[pk] = NoRow THEN TRUE ELSE products[pk].quantity < cap

\* every account the program can hold: the two that exist from the start and
\* the one register_view can add
AllUsers ==
    InitUsers \cup {[id |-> 3, username |-> "newbie", password |-> make_password("eight888")]}

Next ==
    \E s \in Sessions :
        \/ \E m \in Methods, u \in Usernames, p1 \in Passwords, p2 \in Passwords :
              register_view(s, m, u, p1, p2) /\ UNCHANGED rt
        \/ create_user(s) /\ UNCHANGED rt
        \/ \E m \in Methods, u \in Usernames, p \in Passwords :
              login_view(s, m, u, p) /\ UNCHANGED rt
        \/ login_required(s) /\ UNCHANGED rt
        \/ \E q \in SearchQueries : inventory_list(s, q) /\ UNCHANGED rt
        \/ \E r \in FormRequests, pk \in PKs :
              product_detail(s, r[1], pk, r[2]) /\ UNCHANGED rt
        \/ \E r \in FormRequests : product_add(s, r[1], r[2]) /\ UNCHANGED rt
        \/ \E m \in Methods, pk \in PKs :
              Below(pk, MaxQty) /\ increase_stock(s, m, pk) /\ UNCHANGED rt
        \/ increase_stock_save(s) /\ UNCHANGED rt
        \/ \E m \in Methods, pk \in PKs : decrease_stock(s, m, pk) /\ UNCHANGED rt
        \/ decrease_stock_save(s) /\ UNCHANGED rt
        \/ \E m \in Methods, pk \in PKs : product_delete(s, m, pk) /\ UNCHANGED rt

\* the whole program: every view, requests of the two sessions interleaved
Spec == Init /\ [][Next]_vars

----------------------------------------------------------------------------
(* The accounts views, and the login gate that sends the anonymous         *)
(* requests of the inventory views to them                                 *)

NextAccounts ==
    \E s \in Sessions :
        \/ \E m \in Methods, u \in Usernames, p1 \in Passwords, p2 \in Passwords :
              register_view(s, m, u, p1, p2) /\ UNCHANGED rt
        \/ create_user(s) /\ UNCHANGED rt
        \/ \E m \in Methods, u \in Usernames, p \in Passwords :
              login_view(s, m, u, p) /\ UNCHANGED rt
        \/ login_required(s) /\ UNCHANGED rt

SpecAccounts == Init /\ [][NextAccounts]_vars

----------------------------------------------------------------------------
(* The inventory views alone.  The accounts table is complete and the      *)
(* sessions are logged in: one as the owner of company A, one as the staff *)
(* member of company B, and one as the account without a profile.          *)

LoggedIn ==
    [s \in Sessions |-> CASE s = "s1" -> "owner" [] s = "s2" -> "staff" [] OTHER -> "newbie"]

InitInventory ==
    /\ users = AllUsers
    /\ session = LoggedIn
    /\ products = [pk \in PKs |-> NoRow]
    /\ next_pk = 1
    /\ req = [s \in Sessions |-> Idle]
    /\ resp = NoResponse
    /\ rt = NoRT

NextInventory ==
    \E s \in Sessions :
        \/ \E q \in SearchQueries : inventory_list(s, q) /\ UNCHANGED rt
        \/ \E r \in FormRequests, pk \in PKs :
              product_detail(s, r[1], pk, r[2]) /\ UNCHANGED rt
        \/ \E r \in FormRequests : product_add(s, r[1], r[2]) /\ UNCHANGED rt
        \/ \E m \in Methods, pk \in PKs :
              Below(pk, MaxQty) /\ increase_stock(s, m, pk) /\ UNCHANGED rt
        \/ increase_stock_save(s) /\ UNCHANGED rt
        \/ \E m \in Methods, pk \in PKs : decrease_stock(s, m, pk) /\ UNCHANGED rt
        \/ decrease_stock_save(s) /\ UNCHANGED rt
        \/ \E m \in Methods, pk \in PKs : product_delete(s, m, pk) /\ UNCHANGED rt

SpecInventory == InitInventory /\ [][NextInventory]_vars

----------------------------------------------------------------------------
(* The stock endpoints alone, under concurrent clicks: every session is    *)
(* logged in as the owner of company A, which has one product              *)

StockRow(company, q) ==
    [company |-> company, item_name |-> <<"W", "i", "d">>, category |-> <<"T", "o", "y">>,
     cost_price |-> 3, quantity |-> q]

InitStock ==
    /\ users = AllUsers
    /\ session = [s \in Sessions |-> "owner"]
    /\ \E q \in 0 .. MaxQty :
           products = [pk \in PKs |-> IF pk = 1 THEN StockRow("A", q) ELSE NoRow]
    /\ next_pk = 2
    /\ req = [s \in Sessions |-> Idle]
    /\ resp = NoResponse
    /\ rt = NoRT

NextStock ==
    \E s \in Sessions :
        \/ \E m \in Methods, pk \in PKs :
              Below(pk, MaxQty + MaxClicks) /\ increase_stock(s, m, pk) /\ UNCHANGED rt
        \/ increase_stock_save(s) /\ UNCHANGED rt
        \/ \E m \in Methods, pk \in PKs : decrease_stock(s, m, pk) /\ UNCHANGED rt
        \/ decrease_stock_save(s) /\ UNCHANGED rt

SpecStock == InitStock /\ [][NextStock]_vars

----------------------------------------------------------------------------
(* A round trip: rt.n increase_stock POSTs on the product rt.pk, then rt.n  *)
(* decrease_stock POSTs, each request finished before the next is sent and  *)
(* no other request in between.  rt counts the requests that have answered. *)

InitRoundTrip ==
    /\ users = AllUsers
    /\ session = LoggedIn
    /\ req = [s \in Sessions |-> Idle]
    /\ resp = NoResponse
    /\ \E p \in PKs, c \in Companies, q \in 0 .. MaxQty, n \in 0 .. MaxClicks :
          /\ products = [pk \in PKs |-> IF pk = p THEN StockRow(c, q) ELSE NoRow]
          /\ next_pk = p + 1
          /\ rt = [active |-> TRUE, pk |-> p, q0 |-> q, n |-> n, incs |-> 0, decs |-> 0]

AllIdle == \A s \in Sessions : req[s] = Idle

\* an increase_stock POST that finds the product
RoundTripIncrease(s) ==
    /\ AllIdle
    /\ rt.incs < rt.n
    /\ increase_stock(s, "POST", rt.pk)
    /\ req'[s] # Idle
    /\ UNCHANGED rt

RoundTripIncreaseSave(s) ==
    /\ increase_stock_save(s)
    /\ rt' = [rt EXCEPT !.incs = @ + 1]

\* a decrease_stock POST that finds the product
RoundTripDecrease(s) ==
    /\ AllIdle
    /\ rt.incs = rt.n
    /\ rt.decs < rt.n
    /\ decrease_stock(s, "POST", rt.pk)
    /\ \/ req'[s] # Idle /\ UNCHANGED rt
       \/ req'[s] = Idle /\ resp'.json.success /\ rt' = [rt EXCEPT !.decs = @ + 1]

RoundTripDecreaseSave(s) ==
    /\ decrease_stock_save(s)
    /\ rt' = [rt EXCEPT !.decs = @ + 1]

NextRoundTrip ==
    \E s \in Sessions :
        \/ RoundTripIncrease(s)
        \/ RoundTripIncreaseSave(s)
        \/ RoundTripDecrease(s)
        \/ RoundTripDecreaseSave(s)

SpecRoundTrip == InitRoundTrip /\ [][NextRoundTrip]_vars

----------------------------------------------------------------------------
(* Properties *)

\* the company of the account a response answers
CompanyOf(user) == UserProfile[user].company

InventoryViews ==
    {"inventory_list", "product_detail", "product_add", "increase_stock",
     "decrease_stock", "product_delete"}

\* C1: tenant isolation.  A step that changes the Product table is the step
\* of a request whose account has a profile, and every row it changes, adds
\* or removes belongs to that profile's company; and every product whose
\* data a response to an account with a profile contains (list, detail,
\* delete page, stock JSON) belongs to that profile's company.  So requests
\* of company C1, with any primary key, leave the products of C2 as they are
\* and show none of them.
C1_TenantIsolation ==
    [][ /\ products' # products =>
              /\ HasProfile(resp'.user)
              /\ \A pk \in PKs :
                    products'[pk] # products[pk] =>
                       /\ products[pk] # NoRow => products[pk].company = CompanyOf(resp'.user)
                       /\ products'[pk] # NoRow => products'[pk].company = CompanyOf(resp'.user)
        /\ (resp'.view \in InventoryViews /\ HasProfile(resp'.user)) =>
              \A pk \in resp'.shown :
                 LET row == IF products'[pk] # NoRow THEN products'[pk] ELSE products[pk]
                 IN  row # NoRow /\ row.company = CompanyOf(resp'.user)
      ]_vars

\* C1 witness: the owner of company A asked for the detail page of a product
\* of company B by its primary key and got a 404
C1_CrossTenantRequest ==
    /\ resp.view = "product_detail"
    /\ resp.user = "owner"
    /\ resp.kind = "http404"
    /\ \E pk \in PKs : products[pk] # NoRow /\ products[pk].company = "B"

\* C2: every stored product has quantity >= 0
C2_QuantityNonNegative ==
    \A pk \in PKs : products[pk] # NoRow => products[pk].quantity >= 0

\* C2 witness: a decrease_stock request answered with success and the
\* product is at quantity 0
C2_DecreasedToZero ==
    /\ resp.view = "decrease_stock"
    /\ resp.json.success
    /\ \E pk \in resp.shown : products[pk] # NoRow /\ products[pk].quantity = 0

AccessDeniedEdit(user) ==
    Redirect("product_detail", user, "inventory_list",
             "Access denied. Only business owners can edit products.")
AccessDeniedDelete(user) ==
    Redirect("product_delete", user, "inventory_list",
             "Access denied. Only business owners can delete products.")

\* the session s is logged in with the role staff
IsStaff(s) == HasProfile(session[s]) /\ UserProfile[session[s]].role = "staff"

\* the product pk exists and belongs to the company of the session's profile
OwnProduct(s, pk) ==
    /\ HasProfile(session[s])
    /\ products[pk] # NoRow
    /\ products[pk].company = CompanyOf(session[s])

\* C3: a POST to product_detail or to product_delete by a staff account for
\* a product of its own company ends with the access-denied notice and a
\* redirect to the list, and leaves the Product table as it was
C3_StaffCannotEditOrDelete ==
    [][ (req' = req /\ resp'.view \in {"product_detail", "product_delete"}) =>
           \A s \in Sessions :
              (resp'.user = session[s] /\ IsStaff(s)) =>
                 \A pk \in PKs :
                    OwnProduct(s, pk) =>
                       /\ \A post \in PostData :
                             product_detail(s, "POST", pk, post) =>
                                /\ resp' = AccessDeniedEdit(session[s])
                                /\ products' = products
                       /\ product_delete(s, "POST", pk) =>
                             /\ resp' = AccessDeniedDelete(session[s])
                             /\ products' = products
      ]_vars

\* C3 witness: the staff account was denied a delete and its company's
\* product is still stored
C3_StaffDenied ==
    /\ resp = AccessDeniedDelete("staff")
    /\ \E pk \in PKs : products[pk] # NoRow /\ products[pk].company = "B"

\* C6: a decrease_stock POST on a product of the acting company whose
\* quantity is 0 is answered at once with success and new_quantity 0, leaves
\* every table as it was and leaves no write pending
C6_DecreaseAtZero ==
    [][ resp'.view = "decrease_stock" =>
           \A s \in Sessions, pk \in PKs :
              ( /\ OwnProduct(s, pk)
                /\ products[pk].quantity = 0
                /\ decrease_stock(s, "POST", pk) ) =>
                 /\ products' = products
                 /\ users' = users
                 /\ next_pk' = next_pk
                 /\ req'[s] = Idle
                 /\ resp'.kind = "json"
                 /\ resp'.json.success
                 /\ resp'.json.new_quantity = 0
      ]_vars

\* C6 witness: decrease_stock answered success with new_quantity 0 for a
\* product that is stored with quantity 0, and no request is pending
C6_DecreasedAtZero ==
    /\ resp.view = "decrease_stock"
    /\ resp.json.success
    /\ resp.json.new_quantity = 0
    /\ AllIdle
    /\ \E pk \in resp.shown : products[pk] # NoRow /\ products[pk].quantity = 0

\* the response the inventory views give an account without a profile
NoProfileResponse(view, user) ==
    CASE view \in {"inventory_list", "product_detail", "product_add"} ->
            {Redirect(view, user, "dashboard", "User profile not found.")}
      [] view \in {"increase_stock", "decrease_stock"} ->
            {JsonFailure(view, user, "Product not found"),
             JsonFailure(view, user, "Invalid request")}
      [] view = "product_delete" ->
            {Redirect(view, user, "inventory_list", "Product not found.")}

\* the last response answers an inventory request of an account without a profile
AnswersNoProfile(r) ==
    /\ r.view \in InventoryViews
    /\ r.user \in Usernames
    /\ ~HasProfile(r.user)

\* C10 as claimed: every inventory view answers an authenticated account
\* that has no profile with the profile-missing notice and a redirect to the
\* dashboard, shows no product and changes none
C10_ProfileMissingEverywhere ==
    [][ AnswersNoProfile(resp') =>
           /\ resp' = Redirect(resp'.view, resp'.user, "dashboard",
                               "User profile not found.")
           /\ products' = products
      ]_vars

\* C10 amended: inventory_list, product_detail and product_add answer an
\* authenticated account that has no profile with the profile-missing notice
\* and a redirect to the dashboard; increase_stock and decrease_stock answer
\* it with a JSON body success = false ("Product not found" for a POST,
\* "Invalid request" otherwise); product_delete answers it with the notice
\* "Product not found." and a redirect to the inventory list.  None of
\* these responses contains a product, and no product changes.
C10_NoProfileNoInventory ==
    [][ AnswersNoProfile(resp') =>
           /\ resp' \in NoProfileResponse(resp'.view, resp'.user)
           /\ resp'.shown = {}
           /\ products' = products
      ]_vars

\* C10 witness: the account without a profile posted an increase for a
\* stored product and got the JSON failure, the product being as it was
C10_NoProfileStockRequest ==
    /\ resp.view = "increase_stock"
    /\ resp.user = "newbie"
    /\ resp.kind = "json"
    /\ ~resp.json.success
    /\ resp.json.error = "Product not found"
    /\ \E pk \in PKs : products[pk] # NoRow

----------------------------------------------------------------------------
(* Properties of the accounts views *)

DuplicateUsername == "Username already exists. Please choose another."
PasswordTooShort == "Password must be at least 8 characters long."
PasswordMismatch == "Passwords do not match."

\* C4 as claimed: no two accounts share a username; a registration that
\* does not create an account leaves the table as it was, one that does adds
\* exactly one account; and a registration of a username that is present,
\* at the checks or at the INSERT, reports the duplicate-username notice
C4_DuplicateAlwaysReported ==
    [][ /\ \A a, b \in users' : a.username = b.username => a = b
        /\ \A s \in Sessions :
              /\ \A m \in Methods, u \in Usernames, p1 \in Passwords, p2 \in Passwords :
                    ( /\ req[s] = Idle
                      /\ (req'[s] # Idle \/ resp'.view = "register_view")
                      /\ register_view(s, m, u, p1, p2) ) =>
                       /\ users' = users
                       /\ (m = "POST" /\ UsernameExists(u)) =>
                             resp'.notice = DuplicateUsername
              /\ (req[s] # Idle /\ create_user(s)) =>
                    IF UsernameExists(req[s].username)
                    THEN users' = users /\ resp'.notice = DuplicateUsername
                    ELSE users \subseteq users' /\ Cardinality(users') = Cardinality(users) + 1
      ]_vars

\* the stored credentials of username verify against password
CredentialsVerify(username, password) ==
    \E u \in users : u.username = username /\ u.password = make_password(password)

\* C8: a login POST for a username without an account reports the unknown
\* user, one whose credentials do not verify reports invalid credentials,
\* and in both cases every session stays bound as it was; a login POST whose
\* username exists and whose credentials verify binds the session to that
\* account
C8_SessionOnlyOnSuccess ==
    [][ \A s \in Sessions, u \in Usernames, p \in Passwords :
           (resp'.view = "login_view" /\ login_view(s, "POST", u, p)) =>
              /\ ~UsernameExists(u) =>
                    resp'.notice = "Username does not exist." /\ session' = session
              /\ (UsernameExists(u) /\ ~CredentialsVerify(u, p)) =>
                    resp'.notice = "Invalid username or password." /\ session' = session
              /\ (UsernameExists(u) /\ CredentialsVerify(u, p)) =>
                    session' = [session EXCEPT ![s] = u] /\ resp'.target = "dashboard:dashboard"
      ]_vars

\* C8 witness: a login with a wrong password was refused while the session
\* stayed anonymous, with the account present
C8_InvalidCredentials ==
    /\ resp.view = "login_view"
    /\ resp.notice = "Invalid username or password."
    /\ resp.user = AnonymousUser
    /\ \E s \in Sessions : session[s] # AnonymousUser

\* C9: a registration POST reports the first failing check in the order
\* duplicate username, password shorter than 8, passwords differ, whatever
\* later checks the input fails as well
C9_CheckOrder ==
    [][ \A s \in Sessions, u \in Usernames, p1 \in Passwords, p2 \in Passwords :
           ( /\ req[s] = Idle
             /\ users' = users
             /\ (req'[s] # Idle \/ resp'.view = "register_view")
             /\ register_view(s, "POST", u, p1, p2) ) =>
              /\ UsernameExists(u) =>
                    resp' = Redirect("register_view", session[s], "accounts:register",
                                     DuplicateUsername)
              /\ (~UsernameExists(u) /\ Len(p1) < 8) =>
                    resp' = Redirect("register_view", session[s], "accounts:register",
                                     PasswordTooShort)
              /\ (~UsernameExists(u) /\ Len(p1) >= 8 /\ p1 # p2) =>
                    resp' = Redirect("register_view", session[s], "accounts:register",
                                     PasswordMismatch)
              /\ (~UsernameExists(u) /\ Len(p1) >= 8 /\ p1 = p2) =>
                    req'[s] # Idle /\ resp' = resp
      ]_vars

\* C9 witness: a registration was refused for a short password while the
\* username "newbie" was free
C9_TooShortReported ==
    /\ resp.view = "register_view"
    /\ resp.notice = PasswordTooShort
    /\ ~UsernameExists("newbie")

----------------------------------------------------------------------------
(* Properties of the stock endpoints *)

\* C5 as claimed: each stock request is atomic, so the write of an
\* increase_stock stores the quantity the row has at that moment plus one,
\* and the write of a decrease_stock that quantity minus one
C5_AtomicStockUpdate ==
    [][ \A s \in Sessions :
           /\ (req[s] # Idle /\ increase_stock_save(s)) =>
                 products'[req[s].pk].quantity = products[req[s].pk].quantity + 1
           /\ (req[s] # Idle /\ decrease_stock_save(s)) =>
                 products'[req[s].pk].quantity =
                    IF products[req[s].pk].quantity > 0
                    THEN products[req[s].pk].quantity - 1 ELSE 0
      ]_vars

\* C7: after rt.n increases and rt.n decreases of the product, each request
\* answered with success, its quantity is the starting quantity
C7_RoundTrip ==
    (rt.active /\ rt.incs = rt.n /\ rt.decs = rt.n /\ AllIdle) =>
        products[rt.pk].quantity = rt.q0

\* C7 witness: a round trip of two increases and two decreases is complete
C7_RoundTripDone ==
    /\ rt.active
    /\ rt.n >= 2
    /\ rt.incs = rt.n
    /\ rt.decs = rt.n
    /\ AllIdle
====
